---- MODULE Spec2Model ----
(***************************************************************************)
(* State-machine model of src/diffusers/models/unet_unconditional.py:      *)
(* construction of UNetUnconditionalModel (block graph, legacy modules),  *)
(* its forward pass (timestep normalisation, skip buffer, up pass), the   *)
(* one-shot weight migration set_weights, and Combine.                    *)
(*                                                                         *)
(* Tensors are abstracted to their provenance, channel width and spatial  *)
(* size; weights to a version tag per module group.  Python's None for an *)
(* optional sequence argument is the empty tuple <<>>, a given value v is *)
(* the one-element tuple <<v>>.                                           *)
(***************************************************************************)
EXTENDS Integers, Sequences, FiniteSets, TLC

\* ------------------------------------------------------------------ bounds
MaxLevels == 4
MaxRes == 2
MaxCalls == 2
MaxBatch == 2

\* ------------------------------------------------------- generic helpers
Min(a, b) == IF a < b THEN a ELSE b
Max(a, b) == IF a < b THEN b ELSE a

Reverse(s) == [k \in 1..Len(s) |-> s[Len(s) + 1 - k]]

\* LastN taking the slice s[:n] from the front of the sequence.
LastN_FromFront(s, n) ==
    IF n = 0 THEN s
    ELSE SubSeq(s, 1, Min(n, Len(s)))

\* Python s[-n:] for n >= 1 (for n = 0 Python's s[-0:] is s[0:], the
\* whole sequence).
LastN(s, n) ==
    IF n = 0 THEN s
    ELSE SubSeq(s, Max(1, Len(s) - n + 1), Len(s))

\* Python s[:-n] for n >= 1 (for n = 0 Python's s[:-0] is s[:0], empty).
DropLastN(s, n) ==
    IF n = 0 THEN <<>>
    ELSE SubSeq(s, 1, Max(0, Len(s) - n))

\* ------------------------------------------------- constructor arguments
\* Block type tags resolved by the block factories.
PlainDown == "UNetResDownBlock2D"
SkipDown == "UNetResSkipDownBlock2D"
AttnSkipDown == "UNetResAttnSkipDownBlock2D"
PlainUp == "UNetResUpBlock2D"

SkipDownTypes == {SkipDown, AttnSkipDown}

BaseWidth == 32

Flat(n) == [k \in 1..n |-> BaseWidth]
Ramp(n) == [k \in 1..n |-> BaseWidth * k]
Ones(n) == [k \in 1..n |-> 1]
AllPlainDown(n) == [k \in 1..n |-> PlainDown]
AltSkipDown(n) == [k \in 1..n |-> IF k % 2 = 1 THEN SkipDown ELSE PlainDown]
AllPlainUp(n) == [k \in 1..n |-> PlainUp]

BlockChannelsChoices == {Flat(n) : n \in 1..MaxLevels} \cup {Ramp(n) : n \in 1..MaxLevels}
DownBlocksChoices == {AllPlainDown(n) : n \in 1..MaxLevels} \cup {AltSkipDown(n) : n \in 1..MaxLevels}
UpBlocksChoices == {AllPlainUp(n) : n \in 1..MaxLevels}

\* ch_mult: None, or a given tuple of multipliers.
ChMultChoices == {<<>>, <<Ones(2)>>, <<Ones(MaxLevels)>>, <<Ones(MaxLevels + 1)>>}

TimeEmbeddingTypes == {"positional", "fourier", "learned"}
CombineMethods == {"cat", "sum", "xor", "CAT"}

\* Arguments that every choice below leaves at one well-formed value.
FixedArgs ==
    [in_channels |-> 3, nf |-> BaseWidth, ch |-> BaseWidth, num_channels |-> 3, out_ch |-> 3,
     progressive |-> "none"]

\* Constructions that vary the block structure, with the legacy mode flags off.
StructArgs ==
    {[in_channels |-> FixedArgs.in_channels, out_channels |-> 3,
      num_res_blocks |-> r, block_channels |-> bc, down_blocks |-> db, up_blocks |-> ub,
      time_embedding_type |-> "positional", time_embedding_act_fn |-> "silu",
      ldm |-> FALSE, ddpm |-> FALSE, sde |-> FALSE,
      nf |-> FixedArgs.nf, ch |-> FixedArgs.ch, ch_mult |-> <<>>,
      num_channels |-> FixedArgs.num_channels, out_ch |-> FixedArgs.out_ch,
      progressive |-> FixedArgs.progressive, progressive_input |-> "input_skip",
      progressive_combine |-> "cat"] :
        r \in 0..MaxRes, bc \in BlockChannelsChoices, db \in DownBlocksChoices,
        ub \in UpBlocksChoices}

\* Constructions that vary the mode flags and the options they read, on a
\* few block structures.  An option is varied only when its flag is set.
ModeArgs ==
    {a \in
        [in_channels : {FixedArgs.in_channels}, out_channels : {3, 4},
         num_res_blocks : {1, 2},
         block_channels : {Flat(2), Flat(MaxLevels)},
         down_blocks : {AllPlainDown(2)},
         up_blocks : {AllPlainUp(2), AllPlainUp(MaxLevels)},
         time_embedding_type : TimeEmbeddingTypes, time_embedding_act_fn : {"silu"},
         ldm : BOOLEAN, ddpm : BOOLEAN, sde : BOOLEAN,
         nf : {FixedArgs.nf}, ch : {FixedArgs.ch}, ch_mult : ChMultChoices,
         num_channels : {FixedArgs.num_channels}, out_ch : {FixedArgs.out_ch},
         progressive : {FixedArgs.progressive}, progressive_input : {"none", "input_skip"},
         progressive_combine : CombineMethods] :
        /\ (~a.sde /\ ~a.ddpm) => a.ch_mult = <<>>
        /\ ~a.sde => (a.progressive_combine = "cat" /\ a.progressive_input = "input_skip")
        /\ a.sde => (a.block_channels = Flat(MaxLevels) /\ a.num_res_blocks = 1)
        /\ ~a.sde => (a.block_channels = Flat(2) /\ a.up_blocks = AllPlainUp(2))}

\* ------------------------------------------------------ block factories
\* A down block: num_layers residual steps and an optional resample step.
get_down_block(down_block_type, num_layers, in_channels, out_channels, add_downsample) ==
    [type |-> down_block_type, num_layers |-> num_layers,
     in_channels |-> in_channels, out_channels |-> out_channels,
     add_downsample |-> add_downsample,
     has_skip |-> down_block_type \in SkipDownTypes]

\* An up block: len(resnets) = num_layers residual steps, each concatenating
\* one skip tensor, and an optional resample step.
get_up_block(up_block_type, num_layers, in_channels, out_channels, prev_output_channel, add_upsample) ==
    [type |-> up_block_type, resnets |-> num_layers,
     in_channels |-> in_channels, out_channels |-> out_channels,
     prev_output_channel |-> prev_output_channel, add_upsample |-> add_upsample]

\* ---------------------------------------------------------------- Combine
\* Combine.__init__: a 1x1 convolution dim1 -> dim2 and the method, stored as given.
Combine(dim1, dim2, method) == [dim1 |-> dim1, dim2 |-> dim2, method |-> method]

\* Combine.forward with the final `else: raise ValueError` dropped, so that an
\* unrecognized method falls through to the sum.
CombineForward_NoElse(self, x_ch, y_ch) ==
    IF x_ch # self.dim1 THEN [method |-> self.method, err |-> "ShapeError", ch |-> 0]
    ELSE IF self.method = "cat"
         THEN [method |-> self.method, err |-> "", ch |-> self.dim2 + y_ch]
    ELSE IF y_ch # self.dim2 THEN [method |-> self.method, err |-> "ShapeError", ch |-> 0]
    ELSE [method |-> self.method, err |-> "", ch |-> self.dim2]

\* Combine.forward(x, y) on tensors of x_ch and y_ch channels: the channel
\* count of the result, or the exception raised.
CombineForward(self, x_ch, y_ch) ==
    IF x_ch # self.dim1 THEN [method |-> self.method, err |-> "ShapeError", ch |-> 0]
    ELSE IF self.method = "cat"
         THEN [method |-> self.method, err |-> "", ch |-> self.dim2 + y_ch]
    ELSE IF self.method = "sum"
         THEN IF y_ch # self.dim2
              THEN [method |-> self.method, err |-> "ShapeError", ch |-> 0]
              ELSE [method |-> self.method, err |-> "", ch |-> self.dim2]
    ELSE [method |-> self.method, err |-> "ValueError", ch |-> 0]

\* --------------------------------------------------------------- __init__
\* str.lower() on the method strings in use.
Lower(str) ==
    CASE str = "CAT" -> "cat"
      [] OTHER -> str

\* The down_blocks tuple the sde override installs.
SdeDownBlocks == <<SkipDown, AttnSkipDown, SkipDown, SkipDown>>

\* Locals of __init__ after the `if sde:` override.
Locals(a) ==
    [block_channels |-> IF a.sde
                        THEN [k \in 1..Len(a.ch_mult[1]) |-> a.nf * a.ch_mult[1][k]]
                        ELSE a.block_channels,
     in_channels |-> IF a.sde THEN a.num_channels ELSE a.in_channels,
     out_channels |-> IF a.sde THEN a.num_channels ELSE a.out_channels,
     time_embedding_type |-> IF a.sde THEN "fourier" ELSE a.time_embedding_type,
     down_blocks |-> IF a.sde THEN SdeDownBlocks ELSE a.down_blocks,
     up_blocks |-> a.up_blocks,
     num_res_blocks |-> a.num_res_blocks]

\* self.register_to_config(...): the entries as the caller passed them.
register_to_config(a) ==
    [in_channels |-> a.in_channels, out_channels |-> a.out_channels,
     block_channels |-> a.block_channels, num_res_blocks |-> a.num_res_blocks,
     down_blocks |-> a.down_blocks, up_blocks |-> a.up_blocks,
     time_embedding_type |-> a.time_embedding_type,
     time_embedding_act_fn |-> a.time_embedding_act_fn,
     ldm |-> a.ldm, ddpm |-> a.ddpm, sde |-> a.sde]

\* register_to_config, then the two config entries the sde override assigns.
RegisteredConfig(a) ==
    IF a.sde
    THEN [register_to_config(a) EXCEPT !.time_embedding_type = "fourier",
                                       !.time_embedding_act_fn = "None"]
    ELSE register_to_config(a)

\* GaussianFourierProjection(embedding_size): sine and cosine of the
\* projected timestep, concatenated.
GaussianFourierProjection(embedding_size) == [kind |-> "fourier", width |-> 2 * embedding_size]

\* Timesteps(num_channels): a sinusoidal embedding num_channels wide.
Timesteps(num_channels) == [kind |-> "positional", width |-> num_channels]

\* The `# time` section: embedding generator and the MLP's input width.
TimeSection(a, l) ==
    IF l.time_embedding_type = "fourier"
    THEN [kind |-> "fourier", width |-> GaussianFourierProjection(a.nf).width,
          timestep_input_dim |-> 2 * l.block_channels[1]]
    ELSE [kind |-> "positional", width |-> Timesteps(a.block_channels[1]).width,
          timestep_input_dim |-> l.block_channels[1]]

\* DownLoop with `add_downsample=True` on every block (is_final_block dropped).
DownLoop_AlwaysDownsample(down_blocks, block_channels, num_res_blocks) ==
    [k \in 1..Len(down_blocks) |->
        get_down_block(down_blocks[k], num_res_blocks,
                       IF k = 1 THEN block_channels[1] ELSE block_channels[k - 1],
                       block_channels[k],
                       TRUE)]

\* DownLoop with `input_channel = block_channels[i]` (the width of the
\* previous block not carried over).
DownLoop_InputIsOutput(down_blocks, block_channels, num_res_blocks) ==
    [k \in 1..Len(down_blocks) |->
        get_down_block(down_blocks[k], num_res_blocks,
                       block_channels[k],
                       block_channels[k],
                       ~(k = Len(block_channels)))]

\* The `# down` loop.
DownLoop(down_blocks, block_channels, num_res_blocks) ==
    [k \in 1..Len(down_blocks) |->
        get_down_block(down_blocks[k], num_res_blocks,
                       IF k = 1 THEN block_channels[1] ELSE block_channels[k - 1],
                       block_channels[k],
                       ~(k = Len(block_channels)))]

\* UpLoop with `num_layers=num_res_blocks` (the extra residual block dropped).
UpLoop_NoExtraLayer(up_blocks, block_channels, num_res_blocks) ==
    LET reversed_block_channels == Reverse(block_channels)
        L == Len(block_channels)
    IN [k \in 1..Len(up_blocks) |->
           get_up_block(up_blocks[k], num_res_blocks,
                        reversed_block_channels[Min(k + 1, L)],
                        reversed_block_channels[k],
                        IF k = 1 THEN reversed_block_channels[1]
                                 ELSE reversed_block_channels[k - 1],
                        ~(k = L))]

\* The `# up` loop.
UpLoop(up_blocks, block_channels, num_res_blocks) ==
    LET reversed_block_channels == Reverse(block_channels)
        L == Len(block_channels)
    IN [k \in 1..Len(up_blocks) |->
           get_up_block(up_blocks[k], num_res_blocks + 1,
                        reversed_block_channels[Min(k + 1, L)],
                        reversed_block_channels[k],
                        IF k = 1 THEN reversed_block_channels[1]
                                 ELSE reversed_block_channels[k - 1],
                        ~(k = L))]

\* in_ch of init_for_sde after `level` levels of its downsampling loop.
RECURSIVE SdeInCh(_, _)
SdeInCh(a, level) ==
    IF level = 0 THEN a.nf
    ELSE LET prev == SdeInCh(a, level - 1)
             afterRes == IF a.num_res_blocks >= 1 THEN a.nf * a.ch_mult[1][level] ELSE prev
         IN IF level # Len(a.ch_mult[1])
               /\ a.progressive_input = "input_skip"
               /\ Lower(a.progressive_combine) = "cat"
            THEN 2 * afterRes
            ELSE afterRes

\* The Combine modules init_for_sde appends to all_modules, in order.
SdeCombiners(a) ==
    IF a.progressive_input = "input_skip"
    THEN [k \in 1..(Len(a.ch_mult[1]) - 1) |->
             Combine(a.num_channels,
                     IF a.num_res_blocks >= 1 THEN a.nf * a.ch_mult[1][k]
                                              ELSE SdeInCh(a, k - 1),
                     Lower(a.progressive_combine))]
    ELSE <<>>

\* Attributes the legacy initialisers add to the instance.
LdmAttrs == {"time_embed", "input_blocks", "middle_block", "output_blocks", "out"}
DdpmAttrs == {"temb", "down", "mid_new", "up", "norm_out"}
SdeAttrs == {"all_modules"}

\* Which legacy initialiser the `if ldm: / elif ddpm: / elif sde:` chain runs.
LegacyBranch(a) ==
    IF a.ldm THEN "ldm" ELSE IF a.ddpm THEN "ddpm" ELSE IF a.sde THEN "sde" ELSE "none"

WeightGroups ==
    {"time_steps", "time_embedding", "conv_in", "downsample_blocks", "mid", "mid_new_2",
     "upsample_blocks", "conv_norm_out", "conv_out"}

\* The exception __init__ raises for arguments a, "" when it returns.
\* The checks are in the order the constructor reaches them.
InitError(a) ==
    IF a.sde /\ a.ch_mult = <<>> THEN "TypeError"
    ELSE LET l == Locals(a) IN
         IF l.time_embedding_type \notin {"fourier", "positional"} THEN "UnboundLocalError"
         ELSE IF Len(l.down_blocks) > Len(l.block_channels) THEN "IndexError"
         ELSE IF Len(l.up_blocks) > Len(l.block_channels) THEN "IndexError"
         ELSE IF LegacyBranch(a) = "ddpm" /\ a.ch_mult = <<>> THEN "TypeError"
         ELSE ""

\* The modules __init__ leaves on the instance when it returns.
InitGraph(a) ==
    LET l == Locals(a)
        branch == LegacyBranch(a)
        last == l.block_channels[Len(l.block_channels)]
        newMid == <<[in_channels |-> last]>>
    IN [block_channels |-> l.block_channels,
        num_res_blocks |-> l.num_res_blocks,
        conv_in |-> IF branch = "ddpm"
                    THEN [in_channels |-> l.in_channels, out_channels |-> a.ch_mult[1][1] * a.ch]
                    ELSE [in_channels |-> l.in_channels, out_channels |-> l.block_channels[1]],
        time |-> TimeSection(a, l),
        time_embed_dim |-> l.block_channels[1] * 4,
        downsample_blocks |-> DownLoop(l.down_blocks, l.block_channels, l.num_res_blocks),
        mid |-> IF branch = "sde" THEN <<[in_channels |-> SdeInCh(a, Len(a.ch_mult[1]))]>>
                ELSE IF a.ddpm THEN <<>> ELSE newMid,
        mid_new_2 |-> IF a.ddpm THEN newMid ELSE <<>>,
        upsample_blocks |-> UpLoop(l.up_blocks, l.block_channels, l.num_res_blocks),
        conv_norm_out |-> [num_channels |-> l.block_channels[1]],
        conv_out |-> IF branch = "ddpm"
                     THEN [in_channels |-> a.ch_mult[1][1] * a.ch, out_channels |-> a.out_ch]
                     ELSE [in_channels |-> l.block_channels[1], out_channels |-> l.out_channels],
        combiners |-> IF branch = "sde" THEN SdeCombiners(a) ELSE <<>>]

InitLegacy(a) ==
    CASE LegacyBranch(a) = "ldm" -> LdmAttrs
      [] LegacyBranch(a) = "ddpm" -> DdpmAttrs
      [] LegacyBranch(a) = "sde" -> SdeAttrs
      [] OTHER -> {}

\* Weight version of every module group after __init__: "new" for a module
\* of the unified graph, "legacy" for one a legacy initialiser installed.
InitWeights(a) ==
    [g \in WeightGroups |->
        IF \/ LegacyBranch(a) = "ddpm" /\ g \in {"conv_in", "conv_out"}
           \/ LegacyBranch(a) = "sde" /\ g = "mid"
        THEN "legacy" ELSE "new"]

NoGraph == [block_channels |-> <<>>]
NoCombined == [x_ch |-> 0, y_ch |-> 0, self |-> Combine(0, 0, ""), result |-> [method |-> "", err |-> "", ch |-> 0]]
NoConfig == [sde |-> FALSE]

\* ------------------------------------------------------------------ state
VARIABLES
    args,            \* the constructor arguments
    ctor,            \* "new" before __init__ runs, then "ok" or "raised"
    error,           \* the exception __init__ raised, "" if none
    config,          \* self.config
    graph,           \* the modules of the instance
    is_overwritten,  \* self.is_overwritten
    legacy,          \* legacy attributes present on the instance
    weights,         \* weight version per module group
    combined         \* outcome of the last direct Combine.forward call

instanceVars == <<args, ctor, error, config, graph, is_overwritten, legacy, weights, combined>>

\* UNetUnconditionalModel(**args)
Construct ==
    /\ ctor = "new"
    /\ LET e == InitError(args) IN
       /\ error' = e
       /\ IF e = ""
          THEN /\ ctor' = "ok"
               /\ config' = RegisteredConfig(args)
               /\ graph' = InitGraph(args)
               /\ legacy' = InitLegacy(args)
               /\ weights' = InitWeights(args)
          ELSE /\ ctor' = "raised"
               /\ UNCHANGED <<config, graph, legacy, weights>>
    /\ is_overwritten' = FALSE
    /\ UNCHANGED <<args, combined>>

InitInstance ==
    /\ ctor = "new"
    /\ error = ""
    /\ config = NoConfig
    /\ graph = NoGraph
    /\ is_overwritten = FALSE
    /\ legacy = {}
    /\ weights = [g \in WeightGroups |-> "new"]
    /\ combined = NoCombined

\* ---------------------------------------------------------------- tensors
\* A feature tensor: what produced it (src, block index blk, step j), the
\* input sample it derives from (of), channel width, spatial size and batch.
Tensor(src, blk, j, of, ch, hw, batch) ==
    [src |-> src, blk |-> blk, j |-> j, of |-> of, ch |-> ch, hw |-> hw, batch |-> batch]

NoTensor == Tensor("none", 0, 0, 0, 0, 0, 0)

\* Spatial size of the input samples: divisible by 2 once per level.
RECURSIVE Pow2(_)
Pow2(n) == IF n = 0 THEN 1 ELSE 2 * Pow2(n - 1)

SampleSize == Pow2(MaxLevels)

\* Numbers are counted in halves: h stands for h/2, so 1 is 0.5 and 2 is 1.
\* dtype=torch.long truncates towards zero.
ToLong(h) == 2 * (h \div 2)

\* A timestep argument: a Python scalar, or a tensor with a shape.
ScalarTimestep(h) == [kind |-> "scalar", shape |-> <<>>, vals |-> <<h>>]
TensorTimestep(shape, vals) == [kind |-> "tensor", shape |-> shape, vals |-> vals]

NoTimestep == [kind |-> "none", shape |-> <<>>, vals |-> <<>>]

\* NormalizeTimestep without the branch for 0-dimensional tensors.
NormalizeTimestep_NoUnsqueeze(timestep) ==
    IF timestep.kind # "tensor"
    THEN TensorTimestep(<<1>>, <<ToLong(timestep.vals[1])>>)
    ELSE timestep

\* forward, step 1: `timesteps` as handed to self.time_steps.
NormalizeTimestep(timestep) ==
    IF timestep.kind # "tensor"
    THEN TensorTimestep(<<1>>, <<ToLong(timestep.vals[1])>>)
    ELSE IF Len(timestep.shape) = 0
         THEN TensorTimestep(<<1>> \o timestep.shape, timestep.vals)
         ELSE timestep

\* ------------------------------------------------ block forward functions
\* Down block: returns the main tensor, the skip tensors of its residual
\* steps and of its resample step, and the error it raises ("" if none).
DownBlockForward(b, blk, x) ==
    LET resOut(j) == Tensor("resnet", blk, j, x.of, b.out_channels, x.hw, x.batch)
        afterRes == IF b.num_layers = 0 THEN x ELSE resOut(b.num_layers)
        down == Tensor("downsample", blk, 0, x.of, afterRes.ch, afterRes.hw \div 2, x.batch)
        resList == [j \in 1..b.num_layers |-> resOut(j)]
    IN [err |-> IF b.num_layers > 0 /\ x.ch # b.in_channels THEN "ShapeError"
                ELSE IF b.add_downsample /\ afterRes.ch # b.out_channels THEN "ShapeError"
                ELSE "",
        sample |-> IF b.add_downsample THEN down ELSE afterRes,
        res_samples |-> IF b.add_downsample THEN Append(resList, down) ELSE resList]

\* Mid block: channel- and resolution-preserving.
MidBlockForward(m, x) ==
    [err |-> IF x.ch # m.in_channels THEN "ShapeError" ELSE "",
     sample |-> Tensor("mid", 0, 0, x.of, x.ch, x.hw, x.batch)]

\* Up block: residual step j concatenates the last remaining skip tensor.
UpBlockForward(b, blk, x, res_samples) ==
    LET n == Len(res_samples)
        skipOf(j) == res_samples[n + 1 - j]
        wantSkip(j) == IF j = b.resnets THEN b.in_channels ELSE b.out_channels
        out == Tensor("up", blk, 0, x.of, b.out_channels,
                      IF b.add_upsample THEN 2 * x.hw ELSE x.hw, x.batch)
    IN [err |-> IF n < b.resnets THEN "IndexError"
                ELSE IF x.ch # b.prev_output_channel THEN "ShapeError"
                ELSE IF \E j \in 1..b.resnets :
                            skipOf(j).ch # wantSkip(j) \/ skipOf(j).hw # x.hw
                     THEN "ShapeError"
                ELSE "",
        sample |-> out]

\* ------------------------------------------------------------ set_weights
\* Which branch of set_weights runs: it tests the config flags in order.
SetWeightsBranch(cfg) ==
    IF cfg.ldm THEN "ldm" ELSE IF cfg.ddpm THEN "ddpm" ELSE IF cfg.sde THEN "sde" ELSE "none"

\* The module groups a branch assigns weights to, in program order.
SetWeightsPlan(branch) ==
    CASE branch = "ldm" -> <<"time_embedding", "downsample_blocks", "mid", "upsample_blocks",
                             "conv_in", "conv_norm_out", "conv_out">>
      [] branch = "ddpm" -> <<"time_embedding", "downsample_blocks", "mid_new_2",
                              "upsample_blocks", "conv_norm_out">>
      [] branch = "sde" -> <<"time_steps", "time_embedding", "conv_in">>
      [] OTHER -> <<>>

\* The exception the ldm branch raises while copying into group g ("" if
\* none).  input_blocks[1:] holds, per level, num_res_blocks residual layers
\* and (except on the last level) one downsample layer; the branch takes
\* layer_in_block_id == 2 for the downsample layer.
LdmCopyError(g, a, gr) ==
    LET L == Len(gr.block_channels)
        R == gr.num_res_blocks
        D == Len(gr.downsample_blocks)
        U == Len(gr.upsample_blocks)
    IN CASE g = "downsample_blocks" ->
                IF L >= 2 /\ R < 2 THEN "IndexError"
                ELSE IF R > 2 THEN "AttributeError"
                ELSE IF D < L /\ R > 0 THEN "IndexError"
                ELSE ""
         [] g = "mid" -> IF gr.mid = <<>> THEN "AttributeError" ELSE ""
         [] g = "upsample_blocks" -> IF U < L THEN "IndexError" ELSE ""
         [] OTHER -> ""

\* The exception the ddpm branch raises while copying into group g.  The
\* legacy graph has one level per entry of ch_mult.
DdpmCopyError(g, a, gr) ==
    LET n == Len(a.ch_mult[1])
        R == gr.num_res_blocks
        D == Len(gr.downsample_blocks)
        U == Len(gr.upsample_blocks)
    IN CASE g = "downsample_blocks" ->
                IF \E i \in 1..Min(n - 1, D) : ~gr.downsample_blocks[i].add_downsample
                THEN "TypeError"
                ELSE IF \E i \in (D + 1)..n : i # n \/ R >= 1 THEN "IndexError"
                ELSE ""
         [] g = "upsample_blocks" ->
                IF n > U THEN "IndexError"
                ELSE IF \E k \in 1..(n - 1) : ~gr.upsample_blocks[k].add_upsample
                THEN "TypeError"
                ELSE ""
         [] OTHER -> ""

CopyError(branch, g, a, gr) ==
    CASE branch = "ldm" -> LdmCopyError(g, a, gr)
      [] branch = "ddpm" -> DdpmCopyError(g, a, gr)
      [] OTHER -> ""

\* ------------------------------------------------------------ forward calls
Threads == {1, 2}

VARIABLES
    frame,   \* per thread: the position and the locals of its forward call
    ncalls   \* forward calls started so far

vars == <<args, ctor, error, config, graph, is_overwritten, legacy, weights, combined, frame,
         ncalls>>

NoWeightsRead == [g \in WeightGroups |-> "unread"]

IdleFrame ==
    [pc |-> "idle", sample_in |-> NoTensor, timestep |-> NoTimestep,
     timesteps |-> NoTimestep, emb |-> NoTimestep,
     sample |-> NoTensor, skip_sample |-> NoTensor,
     down_block_res_samples |-> <<>>, res_samples |-> <<>>, idx |-> 0, sw |-> 0,
     ran_set_weights |-> FALSE, wread |-> NoWeightsRead,
     temb_passed |-> {},
     output |-> NoTensor, raised |-> ""]

\* The sample tensors callers pass: sample k has batch size k.
InputSamples(in_channels) ==
    {Tensor("input", 0, 0, k, in_channels, SampleSize, k) : k \in 1..MaxBatch}

\* The timestep arguments callers pass with a sample of the given batch
\* size: an int or float scalar, a 0-dimensional tensor, a tensor[batch].
InputTimesteps(batch) ==
    {ScalarTimestep(h) : h \in {1, 2}}
        \cup {TensorTimestep(<<>>, <<3>>)}
        \cup {TensorTimestep(<<batch>>, [k \in 1..batch |-> 2 * k])}

Raise(c, kind) == frame' = [frame EXCEPT ![c].pc = "raised", ![c].raised = kind]

\* A caller invokes model(sample, timestep).
Begin(c) ==
    /\ ctor = "ok"
    /\ frame[c].pc \in {"idle", "returned", "raised"}
    /\ ncalls < MaxCalls
    /\ \E x \in InputSamples(graph.conv_in.in_channels) :
         \E t \in InputTimesteps(x.batch) :
            frame' = [frame EXCEPT ![c] =
                         [IdleFrame EXCEPT !.pc = "check", !.sample_in = x, !.timestep = t]]
    /\ ncalls' = ncalls + 1
    /\ UNCHANGED instanceVars

\* `if not self.is_overwritten:`
CheckOverwritten(c) ==
    /\ frame[c].pc = "check"
    /\ frame' = [frame EXCEPT ![c].pc = IF is_overwritten THEN "time" ELSE "set_weights"]
    /\ UNCHANGED <<instanceVars, ncalls>>

\* SetWeightsFlag without the assignment to self.is_overwritten.
SetWeightsFlag_NotSet(c) ==
    /\ frame[c].pc = "set_weights"
    /\ is_overwritten' = is_overwritten
    /\ frame' = [frame EXCEPT ![c].pc = "copy", ![c].sw = 0, ![c].ran_set_weights = TRUE]
    /\ UNCHANGED <<args, ctor, error, config, graph, legacy, weights, combined, ncalls>>

\* set_weights, first statement: `self.is_overwritten = True`
SetWeightsFlag(c) ==
    /\ frame[c].pc = "set_weights"
    /\ is_overwritten' = TRUE
    /\ frame' = [frame EXCEPT ![c].pc = "copy", ![c].sw = 0, ![c].ran_set_weights = TRUE]
    /\ UNCHANGED <<args, ctor, error, config, graph, legacy, weights, combined, ncalls>>

\* SetWeightsCopy clearing self.is_overwritten when the copy raises, so that
\* the next call runs set_weights again.
SetWeightsCopy_ClearsFlagOnError(c) ==
    /\ frame[c].pc = "copy"
    /\ LET branch == SetWeightsBranch(config)
           plan == SetWeightsPlan(branch)
       IN /\ frame[c].sw < Len(plan)
          /\ LET g == plan[frame[c].sw + 1]
                 e == IF \E at \in InitLegacy(args) : at \notin legacy THEN "AttributeError"
                      ELSE CopyError(branch, g, args, graph)
             IN IF e = ""
                THEN /\ weights' = [weights EXCEPT ![g] = "legacy"]
                     /\ frame' = [frame EXCEPT ![c].sw = @ + 1]
                ELSE /\ Raise(c, e)
                     /\ UNCHANGED weights
          /\ is_overwritten' = (CopyError(branch, plan[frame[c].sw + 1], args, graph) = ""
                                   /\ \A at \in InitLegacy(args) : at \in legacy)
    /\ UNCHANGED <<args, ctor, error, config, graph, legacy, combined, ncalls>>

\* set_weights: the assignments into the next module group of the branch.
SetWeightsCopy(c) ==
    /\ frame[c].pc = "copy"
    /\ LET branch == SetWeightsBranch(config)
           plan == SetWeightsPlan(branch)
       IN /\ frame[c].sw < Len(plan)
          /\ LET g == plan[frame[c].sw + 1]
                 e == IF \E at \in InitLegacy(args) : at \notin legacy THEN "AttributeError"
                      ELSE CopyError(branch, g, args, graph)
             IN IF e = ""
                THEN /\ weights' = [weights EXCEPT ![g] = "legacy"]
                     /\ frame' = [frame EXCEPT ![c].sw = @ + 1]
                ELSE /\ Raise(c, e)
                     /\ UNCHANGED weights
    /\ UNCHANGED <<args, ctor, error, config, graph, is_overwritten, legacy, combined, ncalls>>

\* set_weights, end of the branch: remove_ldm / remove_ddpm delete the
\* legacy modules; the sde branch stops in `import ipdb; ipdb.set_trace()`,
\* which raises where ipdb is missing and returns once the debugger continues.
SetWeightsFinish(c) ==
    /\ frame[c].pc = "copy"
    /\ LET branch == SetWeightsBranch(config) IN
       /\ frame[c].sw = Len(SetWeightsPlan(branch))
       /\ IF branch \in {"ldm", "ddpm"}
          THEN IF legacy = {}
               THEN Raise(c, "AttributeError") /\ UNCHANGED legacy
               ELSE legacy' = {} /\ frame' = [frame EXCEPT ![c].pc = "time"]
          ELSE /\ UNCHANGED legacy
               /\ \/ frame' = [frame EXCEPT ![c].pc = "time"]
                  \/ branch = "sde" /\ Raise(c, "ImportError")
    /\ UNCHANGED <<args, ctor, error, config, graph, is_overwritten, weights, combined, ncalls>>

\* forward, step 1: normalise the timestep, then t_emb and emb.
TimeStep(c) ==
    /\ frame[c].pc = "time"
    /\ LET ts == NormalizeTimestep(frame[c].timestep) IN
       IF graph.time.width # graph.time.timestep_input_dim
       THEN frame' = [frame EXCEPT ![c].pc = "raised", ![c].raised = "ShapeError",
                                   ![c].timesteps = ts]
       ELSE frame' = [frame EXCEPT
                ![c].pc = "conv_in",
                ![c].timesteps = ts,
                ![c].emb = ts,
                ![c].wread = [@ EXCEPT !["time_steps"] = weights["time_steps"],
                                       !["time_embedding"] = weights["time_embedding"]]]
    /\ UNCHANGED <<instanceVars, ncalls>>

\* ConvIn with `skip_sample = sample` moved after the convolution.
ConvIn_SkipAfterConv(c) ==
    /\ frame[c].pc = "conv_in"
    /\ LET x == frame[c].sample_in
           y == Tensor("conv_in", 0, 0, x.of, graph.conv_in.out_channels, x.hw, x.batch)
       IN IF x.ch # graph.conv_in.in_channels
          THEN Raise(c, "ShapeError")
          ELSE frame' = [frame EXCEPT
                   ![c].pc = IF Len(graph.downsample_blocks) = 0 THEN "mid" ELSE "down",
                   ![c].skip_sample = y,
                   ![c].sample = y,
                   ![c].down_block_res_samples = <<y>>,
                   ![c].idx = 1,
                   ![c].wread = [@ EXCEPT !["conv_in"] = weights["conv_in"]]]
    /\ UNCHANGED <<instanceVars, ncalls>>

\* forward, step 2: skip_sample = sample; sample = conv_in(sample); the skip
\* buffer starts as (sample,).
ConvIn(c) ==
    /\ frame[c].pc = "conv_in"
    /\ LET x == frame[c].sample_in
           y == Tensor("conv_in", 0, 0, x.of, graph.conv_in.out_channels, x.hw, x.batch)
       IN IF x.ch # graph.conv_in.in_channels
          THEN Raise(c, "ShapeError")
          ELSE frame' = [frame EXCEPT
                   ![c].pc = IF Len(graph.downsample_blocks) = 0 THEN "mid" ELSE "down",
                   ![c].skip_sample = x,
                   ![c].sample = y,
                   ![c].down_block_res_samples = <<y>>,
                   ![c].idx = 1,
                   ![c].wread = [@ EXCEPT !["conv_in"] = weights["conv_in"]]]
    /\ UNCHANGED <<instanceVars, ncalls>>

\* DownStep with the returned skip tensors put in front of the buffer.
DownStep_Prepend(c) ==
    /\ frame[c].pc = "down"
    /\ LET k == frame[c].idx
           b == graph.downsample_blocks[k]
           r == DownBlockForward(b, k, frame[c].sample)
       IN IF r.err # ""
          THEN Raise(c, r.err)
          ELSE frame' = [frame EXCEPT
                   ![c].pc = IF k = Len(graph.downsample_blocks) THEN "mid" ELSE "down",
                   ![c].sample = r.sample,
                   ![c].skip_sample =
                       IF b.has_skip
                       THEN Tensor("pyramid", k, 0, @.of, @.ch, r.sample.hw, @.batch)
                       ELSE @,
                   ![c].down_block_res_samples = r.res_samples \o @,
                   ![c].idx = IF k = Len(graph.downsample_blocks) THEN 1 ELSE k + 1,
                   ![c].temb_passed = @ \cup {frame[c].emb},
                   ![c].wread = [@ EXCEPT !["downsample_blocks"] = weights["downsample_blocks"]]]
    /\ UNCHANGED <<instanceVars, ncalls>>

\* forward, step 3: one iteration of the loop over self.downsample_blocks.
DownStep(c) ==
    /\ frame[c].pc = "down"
    /\ LET k == frame[c].idx
           b == graph.downsample_blocks[k]
           r == DownBlockForward(b, k, frame[c].sample)
       IN IF r.err # ""
          THEN Raise(c, r.err)
          ELSE frame' = [frame EXCEPT
                   ![c].pc = IF k = Len(graph.downsample_blocks) THEN "mid" ELSE "down",
                   ![c].sample = r.sample,
                   ![c].skip_sample =
                       IF b.has_skip
                       THEN Tensor("pyramid", k, 0, @.of, @.ch, r.sample.hw, @.batch)
                       ELSE @,
                   ![c].down_block_res_samples = @ \o r.res_samples,
                   ![c].idx = IF k = Len(graph.downsample_blocks) THEN 1 ELSE k + 1,
                   ![c].temb_passed = @ \cup {frame[c].emb},
                   ![c].wread = [@ EXCEPT !["downsample_blocks"] = weights["downsample_blocks"]]]
    /\ UNCHANGED <<instanceVars, ncalls>>

\* MidStep computing the conditioning vector again, from the timestep as
\* the caller passed it.
MidStep_RecomputesEmb(c) ==
    /\ frame[c].pc = "mid"
    /\ LET which == IF config.ddpm THEN "mid_new_2" ELSE "mid"
           m == IF config.ddpm THEN graph.mid_new_2 ELSE graph.mid
           r == MidBlockForward(m[1], frame[c].sample)
       IN IF r.err # ""
          THEN Raise(c, r.err)
          ELSE frame' = [frame EXCEPT
                   ![c].pc = IF Len(graph.upsample_blocks) = 0 THEN "out" ELSE "up",
                   ![c].sample = r.sample,
                   ![c].idx = 1,
                   ![c].emb = frame[c].timestep,
                   ![c].temb_passed = @ \cup {frame[c].timestep},
                   ![c].wread = [@ EXCEPT ![which] = weights[which]]]
    /\ UNCHANGED <<instanceVars, ncalls>>

\* forward, step 4: self.mid_new_2 if config.ddpm else self.mid.
MidStep(c) ==
    /\ frame[c].pc = "mid"
    /\ LET which == IF config.ddpm THEN "mid_new_2" ELSE "mid"
           m == IF config.ddpm THEN graph.mid_new_2 ELSE graph.mid
           r == MidBlockForward(m[1], frame[c].sample)
       IN IF r.err # ""
          THEN Raise(c, r.err)
          ELSE frame' = [frame EXCEPT
                   ![c].pc = IF Len(graph.upsample_blocks) = 0 THEN "out" ELSE "up",
                   ![c].sample = r.sample,
                   ![c].idx = 1,
                   ![c].temb_passed = @ \cup {frame[c].emb},
                   ![c].wread = [@ EXCEPT ![which] = weights[which]]]
    /\ UNCHANGED <<instanceVars, ncalls>>

\* UpStep iterating over reversed(self.upsample_blocks).
UpStep_Reversed(c) ==
    /\ frame[c].pc = "up"
    /\ LET k == frame[c].idx
           b == graph.upsample_blocks[Len(graph.upsample_blocks) + 1 - k]
           res == LastN(frame[c].down_block_res_samples, b.resnets)
           rest == DropLastN(frame[c].down_block_res_samples, b.resnets)
           r == UpBlockForward(b, Len(graph.upsample_blocks) + 1 - k, frame[c].sample, res)
       IN IF r.err # ""
          THEN frame' = [frame EXCEPT ![c].pc = "raised", ![c].raised = r.err,
                                      ![c].res_samples = res,
                                      ![c].down_block_res_samples = rest]
          ELSE frame' = [frame EXCEPT
                   ![c].pc = IF k = Len(graph.upsample_blocks) THEN "out" ELSE "up",
                   ![c].sample = r.sample,
                   ![c].res_samples = res,
                   ![c].down_block_res_samples = rest,
                   ![c].idx = k + 1,
                   ![c].temb_passed = @ \cup {frame[c].emb},
                   ![c].wread = [@ EXCEPT !["upsample_blocks"] = weights["upsample_blocks"]]]
    /\ UNCHANGED <<instanceVars, ncalls>>

\* forward, step 5: one iteration of the loop over self.upsample_blocks:
\* pop len(resnets) skip tensors by slicing, then run the block.
UpStep(c) ==
    /\ frame[c].pc = "up"
    /\ LET k == frame[c].idx
           b == graph.upsample_blocks[k]
           res == LastN(frame[c].down_block_res_samples, b.resnets)
           rest == DropLastN(frame[c].down_block_res_samples, b.resnets)
           r == UpBlockForward(b, k, frame[c].sample, res)
       IN IF r.err # ""
          THEN frame' = [frame EXCEPT ![c].pc = "raised", ![c].raised = r.err,
                                      ![c].res_samples = res,
                                      ![c].down_block_res_samples = rest]
          ELSE frame' = [frame EXCEPT
                   ![c].pc = IF k = Len(graph.upsample_blocks) THEN "out" ELSE "up",
                   ![c].sample = r.sample,
                   ![c].res_samples = res,
                   ![c].down_block_res_samples = rest,
                   ![c].idx = k + 1,
                   ![c].temb_passed = @ \cup {frame[c].emb},
                   ![c].wread = [@ EXCEPT !["upsample_blocks"] = weights["upsample_blocks"]]]
    /\ UNCHANGED <<instanceVars, ncalls>>

\* forward, step 6: conv_norm_out, conv_act, conv_out; return the output.
OutStep(c) ==
    /\ frame[c].pc = "out"
    /\ LET x == frame[c].sample IN
       IF x.ch # graph.conv_norm_out.num_channels \/ x.ch # graph.conv_out.in_channels
       THEN Raise(c, "ShapeError")
       ELSE frame' = [frame EXCEPT
                ![c].pc = "returned",
                ![c].sample = Tensor("conv_out", 0, 0, x.of, graph.conv_out.out_channels,
                                     x.hw, x.batch),
                ![c].output = Tensor("conv_out", 0, 0, x.of, graph.conv_out.out_channels,
                                     x.hw, x.batch),
                ![c].wread = [@ EXCEPT !["conv_norm_out"] = weights["conv_norm_out"],
                                       !["conv_out"] = weights["conv_out"]]]
    /\ UNCHANGED <<instanceVars, ncalls>>

\* --------------------------------------------------------- specifications
ForwardStep(c) ==
    \/ Begin(c)
    \/ CheckOverwritten(c)
    \/ SetWeightsFlag(c)
    \/ SetWeightsCopy(c)
    \/ SetWeightsFinish(c)
    \/ TimeStep(c)
    \/ ConvIn(c)
    \/ DownStep(c)
    \/ MidStep(c)
    \/ UpStep(c)
    \/ OutStep(c)

InitCalls ==
    /\ frame = [c \in Threads |-> IdleFrame]
    /\ ncalls = 0

\* One caller: construction, then forward calls one after the other.
Init ==
    /\ args \in StructArgs \cup ModeArgs
    /\ InitInstance
    /\ InitCalls

Next ==
    \/ Construct /\ UNCHANGED <<frame, ncalls>>
    \/ ForwardStep(1)

Spec == Init /\ [][Next]_vars

\* A caller invokes one of the instance's Combine modules on a pyramid
\* tensor x and a feature tensor y, of the channel counts the module was
\* built for or of one channel more.
CallCombine ==
    /\ ctor = "ok"
    /\ \E k \in DOMAIN graph.combiners :
          LET self == graph.combiners[k] IN
          \E x_ch \in {self.dim1, self.dim1 + 1}, y_ch \in {self.dim2, self.dim2 + 1} :
              combined' = [x_ch |-> x_ch, y_ch |-> y_ch, self |-> self,
                           result |-> CombineForward(self, x_ch, y_ch)]
    /\ UNCHANGED <<args, ctor, error, config, graph, is_overwritten, legacy, weights, frame,
                   ncalls>>

\* Construction in sde mode, then direct calls of the Combine modules.
InitCombine ==
    /\ args \in {a \in ModeArgs : a.sde}
    /\ InitInstance
    /\ InitCalls

NextCombine ==
    \/ Construct /\ UNCHANGED <<frame, ncalls>>
    \/ CallCombine

SpecCombine == InitCombine /\ [][NextCombine]_vars

\* Two callers share one instance whose weight migration, run on its own,
\* completes: no legacy flag, ldm alone, or ddpm alone with a legacy graph of
\* as many levels as the unified one.
ConcArgs ==
    {a \in ModeArgs :
        /\ ~a.sde /\ ~(a.ldm /\ a.ddpm)
        /\ a.num_res_blocks = 2
        /\ a.time_embedding_type = "positional"
        /\ a.ch_mult = IF a.ddpm THEN <<Ones(2)>> ELSE <<>>}

InitConc ==
    /\ args \in ConcArgs
    /\ InitInstance
    /\ InitCalls

\* The two forward calls interleave statement by statement.
NextConc ==
    \/ Construct /\ UNCHANGED <<frame, ncalls>>
    \/ \E c \in Threads : ForwardStep(c)

SpecConc == InitConc /\ [][NextConc]_vars

\* Whose statement runs next when the calls follow one another: caller 1
\* makes the first call on the instance, caller 2 every later one, so the
\* frame of caller 1 keeps what the first call computed.
Turn(c) ==
    IF c = 1
    THEN ncalls = 0 \/ (ncalls = 1 /\ frame[1].pc \notin {"returned", "raised"})
    ELSE ncalls >= 1 /\ frame[1].pc \in {"returned", "raised"}

\* Constructions under every combination of the mode flags, the options
\* that do not bear on set_weights left at one value.
FirstLaterArgs ==
    {a \in ModeArgs :
        /\ a.out_channels = 3
        /\ a.time_embedding_type = "positional"
        /\ a.progressive_input = "input_skip"
        /\ a.progressive_combine = "cat"}

InitFirstLater ==
    /\ args \in FirstLaterArgs
    /\ InitInstance
    /\ InitCalls

NextFirstLater ==
    \/ Construct /\ UNCHANGED <<frame, ncalls>>
    \/ \E c \in Threads : Turn(c) /\ ForwardStep(c)

\* A first forward call on an instance, then later calls, none overlapping.
SpecFirstLater == InitFirstLater /\ [][NextFirstLater]_vars

\* ch_mult with a given first multiplier.
Mults(n, first) == [k \in 1..n |-> IF k = 1 THEN first ELSE 1]

\* Constructions that vary what the `# time` section reads: the embedding
\* kind, nf, ch_mult and block_channels, with and without the sde override.
TimeArgs ==
    {a \in
        [in_channels : {FixedArgs.in_channels}, out_channels : {3},
         num_res_blocks : {1},
         block_channels : {Flat(2), Ramp(2), Flat(MaxLevels)},
         down_blocks : {AllPlainDown(2)},
         up_blocks : {AllPlainUp(2), AllPlainUp(MaxLevels)},
         time_embedding_type : {"positional", "fourier"}, time_embedding_act_fn : {"silu"},
         ldm : {FALSE}, ddpm : {FALSE}, sde : BOOLEAN,
         nf : {BaseWidth, 2 * BaseWidth}, ch : {FixedArgs.ch},
         ch_mult : {<<>>, <<Mults(MaxLevels, 1)>>, <<Mults(MaxLevels, 2)>>},
         num_channels : {FixedArgs.num_channels}, out_ch : {FixedArgs.out_ch},
         progressive : {FixedArgs.progressive}, progressive_input : {"input_skip"},
         progressive_combine : {"cat"}] :
        /\ a.sde => /\ a.ch_mult # <<>>
                    /\ a.block_channels = Flat(MaxLevels)
                    /\ a.up_blocks = AllPlainUp(MaxLevels)
        /\ ~a.sde => /\ a.ch_mult = <<>>
                     /\ a.block_channels # Flat(MaxLevels)
                     /\ a.up_blocks = AllPlainUp(2)}

InitTime ==
    /\ args \in TimeArgs
    /\ InitInstance
    /\ InitCalls

\* Construction over TimeArgs, then forward calls one after the other.
SpecTime == InitTime /\ [][Next]_vars

\* ------------------------------------------------------------- properties
\* The sequences the construction loops iterate over have one length L >= 1.
ValidConfiguration ==
    /\ ctor = "ok"
    /\ Len(graph.block_channels) >= 1
    /\ Len(graph.downsample_blocks) = Len(graph.block_channels)
    /\ Len(graph.upsample_blocks) = Len(graph.block_channels)

Levels == Len(graph.block_channels)

\* C1: for every valid configuration the up pass consumes exactly the skip
\* tensors the down pass produced: once the last up block has run, the skip
\* buffer is empty.
C1_SkipBufferDrained ==
    \A c \in Threads :
        (ValidConfiguration /\ frame[c].pc \in {"out", "returned"})
            => frame[c].down_block_res_samples = <<>>

\* A forward call on a valid two-or-more-level configuration with residual
\* blocks has run its last up block and drained the buffer.
C1_Witness ==
    \E c \in Threads :
        /\ ValidConfiguration
        /\ Levels >= 2
        /\ graph.num_res_blocks >= 1
        /\ frame[c].pc = "out"
        /\ Len(frame[c].res_samples) = graph.num_res_blocks + 1
        /\ frame[c].down_block_res_samples = <<>>

\* C2: with L levels and R residual blocks per level the skip buffer holds
\* exactly 1 + L*R + (L-1) entries when the down pass ends, just before the
\* mid block.
C2_SkipBufferSizeAfterDown ==
    \A c \in Threads :
        (ValidConfiguration /\ frame[c].pc = "mid")
            => Len(frame[c].down_block_res_samples)
                   = 1 + Levels * graph.num_res_blocks + (Levels - 1)

\* The down pass of a three-level, two-residual-block configuration ended
\* with 1 + 3*2 + 2 = 9 entries.
C2_Witness ==
    \E c \in Threads :
        /\ ValidConfiguration
        /\ Levels = 3
        /\ graph.num_res_blocks = 2
        /\ frame[c].pc = "mid"
        /\ Len(frame[c].down_block_res_samples) = 9

\* C3: every up block pops exactly len(resnets) tensors off the end of the
\* skip buffer: the popped batch is the buffer's last len(resnets) entries in
\* production order and the buffer left is the remaining prefix.
C3_PopExactlyLenResnets ==
    [][\A c \in Threads :
          (frame[c].pc = "up" /\ frame'[c] # frame[c])
              => /\ Len(frame'[c].res_samples) = graph.upsample_blocks[frame[c].idx].resnets
                 /\ frame[c].down_block_res_samples
                        = frame'[c].down_block_res_samples \o frame'[c].res_samples]_vars

NumDownsample == Cardinality({k \in 1..Len(graph.downsample_blocks) :
                                 graph.downsample_blocks[k].add_downsample})
NumUpsample == Cardinality({k \in 1..Len(graph.upsample_blocks) :
                               graph.upsample_blocks[k].add_upsample})

\* C4: for any constructed configuration as many down blocks have a
\* downsample step as up blocks have an upsample step, and the tensor forward
\* returns has the spatial size of the input sample.
C4_ResampleCountsMatch ==
    ctor = "ok" =>
        /\ NumDownsample = NumUpsample
        /\ \A c \in Threads :
              frame[c].pc = "returned" => frame[c].output.hw = frame[c].sample_in.hw

\* C5: the output convolution, and so the tensor forward returns, has
\* config.out_channels channels, whatever in_channels and the mode flags are.
C5_OutChannelsAsConfigured ==
    ctor = "ok" =>
        /\ graph.conv_out.out_channels = config.out_channels
        /\ \A c \in Threads :
              frame[c].pc = "returned" => frame[c].output.ch = config.out_channels

\* C6: construction with block_channels, down_blocks and up_blocks not all
\* of one length fails: no such model is ever successfully constructed.
C6_InconsistentLengthsRejected ==
    ctor = "ok" =>
        /\ Len(args.down_blocks) = Len(args.block_channels)
        /\ Len(args.up_blocks) = Len(args.block_channels)

\* C8: construction with a time_embedding_type that is neither "positional"
\* nor "fourier" fails, with the error type of unrecognized options.
C8_UnknownEmbeddingTypeRejected ==
    (ctor # "new" /\ args.time_embedding_type \notin {"positional", "fourier"})
        => (ctor = "raised" /\ error = "ValueError")

\* C9: the timestep handed to the embedding generator is 1-D: a non-tensor
\* scalar and a 0-dimensional tensor become a length-1 sequence, a 1-D tensor
\* of length batch is passed through unchanged.
C9_TimestepIsOneDimensional ==
    \A c \in Threads :
        frame[c].timesteps # NoTimestep =>
            /\ frame[c].timesteps.kind = "tensor"
            /\ Len(frame[c].timesteps.shape) = 1
            /\ Len(frame[c].timesteps.vals) = frame[c].timesteps.shape[1]
            /\ (frame[c].timestep.kind = "scalar" \/ frame[c].timestep.shape = <<>>)
                   => frame[c].timesteps.shape = <<1>>
            /\ (frame[c].timestep.kind = "tensor" /\ Len(frame[c].timestep.shape) = 1)
                   => /\ frame[c].timesteps = frame[c].timestep
                      /\ frame[c].timesteps.shape = <<frame[c].sample_in.batch>>

\* A 0-dimensional tensor timestep was normalised to shape (1,) and handed on.
C9_Witness ==
    \E c \in Threads :
        /\ frame[c].timestep.kind = "tensor"
        /\ frame[c].timestep.shape = <<>>
        /\ frame[c].pc = "conv_in"
        /\ frame[c].timesteps.shape = <<1>>
        /\ frame[c].emb = frame[c].timesteps

\* C7 as stated: a skip-combine method other than "cat" or "sum" is rejected at
\* construction, so no constructed instance holds a Combine with such a method.
C7_UnknownMethodRejectedAtConstruction ==
    ctor = "ok" =>
        \A k \in DOMAIN graph.combiners : graph.combiners[k].method \in {"cat", "sum"}

\* C7 as amended: construction stores the lower-cased method of every
\* Combine without checking it; Combine.forward returns no result when the
\* stored method is neither "cat" nor "sum", and raises ValueError exactly
\* when it is neither and the 1x1 convolution has accepted x.
C7_UnknownMethodRejectedAtForward ==
    /\ ctor = "ok" =>
          \A k \in DOMAIN graph.combiners :
              graph.combiners[k].method = Lower(args.progressive_combine)
    /\ combined # NoCombined =>
          /\ combined.result.err = "ValueError"
                 <=> (combined.self.method \notin {"cat", "sum"}
                         /\ combined.x_ch = combined.self.dim1)
          /\ combined.self.method \notin {"cat", "sum"} => combined.result.err # ""

\* A model was constructed with the method "xor" and the call of one of its
\* Combine modules raised ValueError.
C7_Witness ==
    /\ ctor = "ok"
    /\ args.progressive_combine = "xor"
    /\ graph.combiners # <<>>
    /\ combined.self.method = "xor"
    /\ combined.result.err = "ValueError"

\* The module groups whose weights a forward call reads.
ForwardReads == WeightGroups \ {IF config.ddpm THEN "mid" ELSE "mid_new_2"}

\* The weights a forward call run alone computes with: those set_weights
\* leaves when it runs to its end.
MigratedWeights ==
    LET plan == SetWeightsPlan(SetWeightsBranch(config))
    IN [g \in WeightGroups |->
           IF \E i \in DOMAIN plan : plan[i] = g THEN "legacy" ELSE InitWeights(args)[g]]

\* C10: a forward call writes no instance state a forward call reads, so
\* each of two interleaved forward calls returns what it returns when run
\* alone: the output computed from its own input with the migrated weights.
C10_InterleavedCallsReturnAsAlone ==
    \A c \in Threads :
        frame[c].pc = "returned" =>
            /\ frame[c].output.of = frame[c].sample_in.of
            /\ frame[c].emb = NormalizeTimestep(frame[c].timestep)
            /\ \A g \in ForwardReads : frame[c].wread[g] = MigratedWeights[g]

\* C11: once __init__ has returned, every entry of self.config holds the
\* value register_to_config stored from the constructor arguments; no entry
\* was assigned again.
C11_ConfigKeepsRegisteredValues ==
    ctor = "ok" => config = register_to_config(args)

\* C12: the constructed graph is the one the registered configuration
\* describes, whatever the mode flags: block type tags and counts are
\* config.down_blocks and config.up_blocks, the widths of conv_in, of every
\* down, mid and up block and of conv_out are config.block_channels,
\* config.in_channels and config.out_channels.
C12_ConfigDeterminesGraph ==
    ctor = "ok" =>
        LET rev == Reverse(config.block_channels)
            L == Len(config.block_channels)
            theMid == IF config.ddpm THEN graph.mid_new_2 ELSE graph.mid
        IN /\ [k \in DOMAIN graph.downsample_blocks |-> graph.downsample_blocks[k].type]
                  = config.down_blocks
           /\ [k \in DOMAIN graph.upsample_blocks |-> graph.upsample_blocks[k].type]
                  = config.up_blocks
           /\ graph.block_channels = config.block_channels
           /\ graph.conv_in.in_channels = config.in_channels
           /\ graph.conv_in.out_channels = config.block_channels[1]
           /\ \A k \in DOMAIN graph.downsample_blocks :
                  graph.downsample_blocks[k].out_channels = config.block_channels[k]
           /\ theMid # <<>> /\ theMid[1].in_channels = config.block_channels[L]
           /\ \A k \in DOMAIN graph.upsample_blocks :
                  graph.upsample_blocks[k].out_channels = rev[k]
           /\ graph.conv_out.in_channels = config.block_channels[1]
           /\ graph.conv_out.out_channels = config.out_channels

\* C13: a first call and a later call on one instance with the same sample
\* and the same timestep end the same way: the same normalised timestep and
\* conditioning vector, the same output, computed with the same weights.
C13_FirstAndLaterCallAgree ==
    (/\ frame[1].pc \in {"returned", "raised"}
     /\ frame[2].pc \in {"returned", "raised"}
     /\ frame[1].sample_in = frame[2].sample_in
     /\ frame[1].timestep = frame[2].timestep)
        => /\ frame[1].raised = frame[2].raised
           /\ frame[1].timesteps = frame[2].timesteps
           /\ frame[1].emb = frame[2].emb
           /\ frame[1].output = frame[2].output
           /\ frame[1].wread = frame[2].wread

\* C14: in the down pass the skip buffer only grows at its end.  conv_in
\* starts it as the one-entry tuple holding its output; the iteration for
\* down block k leaves the previous buffer followed by the skip tensors the
\* block returned, in the order returned; a block that raises and the mid
\* block leave it as it is.
C14_SkipBufferAppendOnly ==
    [][\A c \in Threads :
          /\ (frame[c].pc = "conv_in" /\ frame'[c].pc \in {"down", "mid"}) =>
                 /\ frame'[c].down_block_res_samples = <<frame'[c].sample>>
                 /\ frame'[c].sample.src = "conv_in"
          /\ (frame[c].pc = "down" /\ frame'[c].pc \in {"down", "mid"}) =>
                 LET k == frame[c].idx
                     r == DownBlockForward(graph.downsample_blocks[k], k, frame[c].sample)
                 IN frame'[c].down_block_res_samples
                        = frame[c].down_block_res_samples \o r.res_samples
          /\ (frame[c].pc \in {"down", "mid"} /\ frame'[c].pc \in {"raised", "up", "out"}) =>
                 frame'[c].down_block_res_samples = frame[c].down_block_res_samples]_vars

\* A down pass of two or more blocks has finished with a buffer that starts
\* with the conv_in output and holds skip tensors of the first and second block.
C14_Witness ==
    /\ frame[1].pc = "mid"
    /\ Len(graph.downsample_blocks) >= 2
    /\ frame[1].down_block_res_samples[1].src = "conv_in"
    /\ \E i, j \in DOMAIN frame[1].down_block_res_samples :
          /\ i < j
          /\ frame[1].down_block_res_samples[i].blk = 1
          /\ frame[1].down_block_res_samples[j].blk = 2

\* The up block a statement of the up pass invokes, as its index in
\* self.upsample_blocks, i.e. in construction order; 0 if it invokes none.
InvokedUpBlock(c) ==
    IF frame[c].pc = "up" /\ frame'[c].pc \in {"up", "out"} THEN frame'[c].sample.blk
    ELSE 0

\* The up block invoked before, 0 when the main tensor still is the mid block's.
LastUpBlock(c) == IF frame[c].sample.src = "up" THEN frame[c].sample.blk ELSE 0

\* C15 as stated: the up pass invokes the up blocks in reverse construction
\* order, each exactly once: the block constructed last comes first, then the
\* one constructed before it, and the pass ends with the block constructed first.
C15_UpBlocksInReverseConstructionOrder ==
    [][\A c \in Threads :
          LET U == Len(graph.upsample_blocks) IN
          /\ InvokedUpBlock(c) # 0 =>
                 InvokedUpBlock(c) = (IF LastUpBlock(c) = 0 THEN U ELSE LastUpBlock(c) - 1)
          /\ (frame[c].pc = "up" /\ frame'[c].pc = "out") => InvokedUpBlock(c) = 1]_vars

\* C15 as amended: the up pass invokes the up blocks in construction order,
\* each exactly once: the block constructed first (the innermost level)
\* comes first, each next invocation is the block constructed next, and the
\* pass ends with the block constructed last.
C15_UpBlocksInConstructionOrder ==
    [][\A c \in Threads :
          LET U == Len(graph.upsample_blocks) IN
          /\ InvokedUpBlock(c) # 0 => InvokedUpBlock(c) = LastUpBlock(c) + 1
          /\ (frame[c].pc = "up" /\ frame'[c].pc = "out") => InvokedUpBlock(c) = U]_vars

\* An up pass over three or more up blocks has run to its end.
C15_Witness ==
    /\ frame[1].pc = "out"
    /\ Len(graph.upsample_blocks) >= 3
    /\ frame[1].sample.src = "up"
    /\ frame[1].sample.blk = Len(graph.upsample_blocks)

\* C16: a forward call computes the conditioning vector once, from the
\* normalised timestep and before any block has run; no later statement of
\* the call assigns it again, and every down block, the mid block and every
\* up block is passed that one value.
C16_ConditioningComputedOnce ==
    [][\A c \in Threads :
          /\ frame[c].pc \in {"check", "set_weights", "copy"} => frame'[c].emb = NoTimestep
          /\ (frame[c].pc = "time" /\ frame'[c].pc = "conv_in") =>
                 /\ frame[c].emb = NoTimestep
                 /\ frame[c].temb_passed = {}
                 /\ frame'[c].emb = NormalizeTimestep(frame[c].timestep)
          /\ frame[c].pc \in {"conv_in", "down", "mid", "up", "out"} =>
                 frame'[c].emb = frame[c].emb
          /\ frame'[c].temb_passed \subseteq {frame'[c].emb}]_vars

\* A call over two or more down and up blocks has returned, every block
\* having been passed the conditioning vector.
C16_Witness ==
    /\ frame[1].pc = "returned"
    /\ Len(graph.downsample_blocks) >= 2
    /\ Len(graph.upsample_blocks) >= 2
    /\ frame[1].emb # NoTimestep
    /\ frame[1].temb_passed = {frame[1].emb}

\* C17: skip_sample starts as the sample the caller passed, taken before
\* conv_in; the iteration for a down block without a skip-combine path
\* leaves it as it is, the iteration for a down block with one replaces it
\* by the pyramid tensor that block returns.
C17_SkipSampleThreading ==
    [][\A c \in Threads :
          /\ (frame[c].pc = "conv_in" /\ frame'[c].pc \in {"down", "mid"}) =>
                 /\ frame'[c].skip_sample = frame[c].sample_in
                 /\ frame'[c].skip_sample.src = "input"
          /\ (frame[c].pc = "down" /\ frame'[c].pc \in {"down", "mid"}) =>
                 LET k == frame[c].idx IN
                 IF graph.downsample_blocks[k].has_skip
                 THEN /\ frame'[c].skip_sample.src = "pyramid"
                      /\ frame'[c].skip_sample.blk = k
                      /\ frame'[c].skip_sample.of = frame[c].skip_sample.of
                 ELSE frame'[c].skip_sample = frame[c].skip_sample]_vars

\* A down pass has finished in which block 1 replaced the pyramid tensor and
\* block 2, without a skip-combine path, left it as block 1 returned it.
C17_Witness ==
    /\ frame[1].pc = "mid"
    /\ Len(graph.downsample_blocks) = 2
    /\ graph.downsample_blocks[1].has_skip
    /\ ~graph.downsample_blocks[2].has_skip
    /\ frame[1].skip_sample.src = "pyramid"
    /\ frame[1].skip_sample.blk = 1

\* C18: a timestep passed as a Python number reaches the embedding
\* generator with its value unchanged, whether it is an integer or a float
\* (values are counted in halves: 1 is 0.5, 2 is 1).
C18_ScalarTimestepKeepsValue ==
    \A c \in Threads :
        (frame[c].timestep.kind = "scalar" /\ frame[c].timesteps # NoTimestep) =>
            frame[c].timesteps.vals = frame[c].timestep.vals

\* Every down block of the graph is of the plain type (no skip-combine path).
PlainBlocks == \A k \in DOMAIN graph.downsample_blocks : graph.downsample_blocks[k].type = PlainDown

\* C19: on a valid configuration with plain blocks the skip tensors popped
\* for up block i have the widths the block was built for.  With rev the
\* reversed block_channels, the oldest popped tensor, which the last residual
\* step concatenates, is rev[min(i+1, L-1)] wide (the block's in_channels) and
\* the others, which the first num_res_blocks residual steps concatenate, are
\* rev[i] wide (its out_channels); no up block fails on a width mismatch.
C19_SkipWidthsMatchUpBlock ==
    [][\A c \in Threads :
          (ValidConfiguration /\ PlainBlocks /\ frame[c].pc = "up"
              /\ frame'[c].pc \in {"up", "out", "raised"}) =>
              LET i == frame[c].idx
                  rev == Reverse(graph.block_channels)
                  L == Len(graph.block_channels)
                  res == frame'[c].res_samples
              IN /\ Len(res) = graph.num_res_blocks + 1
                 /\ res[1].ch = rev[Min(i + 1, L)]
                 /\ res[1].ch = graph.upsample_blocks[i].in_channels
                 /\ \A j \in 2..Len(res) :
                        /\ res[j].ch = rev[i]
                        /\ res[j].ch = graph.upsample_blocks[i].out_channels
                 /\ frame'[c].pc # "raised"]_vars

\* An up block of a valid plain configuration with growing widths has popped
\* skip tensors of two different widths and run.
C19_Witness ==
    /\ ValidConfiguration
    /\ PlainBlocks
    /\ frame[1].pc \in {"up", "out"}
    /\ frame[1].sample.src = "up"
    /\ Len(frame[1].res_samples) >= 2
    /\ frame[1].res_samples[1].ch # frame[1].res_samples[2].ch

C21_TimestepInputDimMatchesGenerator ==
    ctor = "ok" =>
        /\ graph.time.timestep_input_dim = graph.time.width
        /\ graph.time.kind = "positional" => graph.time.width = graph.block_channels[1]
        /\ graph.time.kind = "fourier" => graph.time.width = 2 * args.nf

\* C22: over forward calls that follow one another on one instance,
\* set_weights runs in the first call and in no other.  is_overwritten is
\* False when __init__ returns, the first call finds it False and runs
\* set_weights, it is True once a call is past set_weights' first statement
\* and never turns False again; weights are copied and legacy modules
\* deleted only by that first call.
C22_SetWeightsInFirstCallOnly ==
    [][/\ (ctor = "new" /\ ctor' = "ok") => ~is_overwritten'
       /\ is_overwritten => is_overwritten'
       /\ \A c \in Threads :
             /\ frame'[c].ran_set_weights => ncalls' = 1
             /\ (frame[c].pc = "check" /\ ncalls = 1) => frame'[c].pc = "set_weights"
             /\ (frame[c].pc = "check" /\ ncalls > 1) => frame'[c].pc = "time"
             /\ frame'[c].pc \notin {"idle", "check", "set_weights"} => is_overwritten'
       /\ (ctor = "ok" /\ (weights' # weights \/ legacy' # legacy)) =>
             /\ ncalls = 1
             /\ \E c \in Threads : frame[c].ran_set_weights /\ frame[c].pc = "copy"]_vars

\* On an instance with legacy modules a second call has returned without
\* running set_weights, the first call having migrated the weights and
\* deleted the legacy modules.
C22_Witness ==
    /\ ncalls = 2
    /\ frame[1].pc = "returned"
    /\ ~frame[1].ran_set_weights
    /\ is_overwritten
    /\ InitLegacy(args) # {}
    /\ legacy = {}
    /\ weights # InitWeights(args)

\* The first forward call on the instance raised inside set_weights, before
\* forward's step 1.
FirstCallInterrupted ==
    /\ frame[1].ran_set_weights
    /\ frame[1].pc = "raised"
    /\ frame[1].timesteps = NoTimestep

\* The weights an interrupted set_weights leaves: the groups it had copied
\* hold the legacy weights, the others the weights of construction.
InterruptedWeights ==
    LET plan == SetWeightsPlan(SetWeightsBranch(config))
    IN [g \in WeightGroups |->
           IF \E i \in 1..frame[1].sw : plan[i] = g THEN "legacy" ELSE InitWeights(args)[g]]

\* C23: set_weights sets is_overwritten before it copies, so when it raises
\* in the first forward call the caller gets the error and the flag stays
\* True: no later call runs set_weights, the weights stay as the interrupted
\* copy left them, and a later call computes with exactly those.
C23_InterruptedMigrationNotRetried ==
    FirstCallInterrupted =>
        /\ frame[1].raised # ""
        /\ is_overwritten
        /\ weights = InterruptedWeights
        /\ ~frame[2].ran_set_weights
        /\ frame[2].pc \notin {"set_weights", "copy"}
        /\ \A g \in WeightGroups : frame[2].wread[g] \in {"unread", weights[g]}

\* The copy raised in the first call after it had copied some group but not
\* all, and a later call has returned.
C23_Witness ==
    /\ FirstCallInterrupted
    /\ frame[1].sw >= 1
    /\ frame[1].sw < Len(SetWeightsPlan(SetWeightsBranch(config)))
    /\ weights # InitWeights(args)
    /\ weights # MigratedWeights
    /\ frame[2].pc = "returned"
    /\ \E g \in WeightGroups : frame[2].wread[g] = "legacy"

====
